---- MODULE Spec2Model ----
(***************************************************************************)
(* The evaluation core of the interpreter (src/src/interpreter.rs) over    *)
(* the syntax tree of src/src/ast.rs, as an abstract machine.              *)
(*                                                                         *)
(* The recursive function eval and its helpers eval_let, eval_call, ...    *)
(* become activation records on an explicit call stack.  One step of the   *)
(* machine is one step of the function on top of the stack: it either      *)
(* calls eval on a sub-term (pushes an activation record) or returns a     *)
(* Result to its caller (pops its record).  `context: &mut Context` is a   *)
(* reference into `heap`; the Rc<RefCell<Context>> of a closure is another *)
(* cell of the same heap.                                                  *)
(***************************************************************************)
EXTENDS Integers, Sequences, FiniteSets, TLC

VARIABLES
    stack,   \* the Rust call stack: activation records of eval_*, top last
    ret,     \* the Result the last returning function handed to its caller
    heap,    \* every Context alive: heap[i] is a HashMap<String, Value>
    cache,   \* Cache: HashMap<String, Value>, keyed by cache_key
    io,      \* what the Printer received, in order
    done     \* history: one record per completed activation, in order

vars == <<stack, ret, heap, cache, io, done>>

(***************************************************************************)
(* Bounds of the model.                                                    *)
(***************************************************************************)
\* integer literals of the generated programs are 0..MaxInt
MaxInt == 1
\* the host call stack holds at most MaxDepth activation records
MaxDepth == 26

(***************************************************************************)
(* ast.rs: locations and terms.                                            *)
(***************************************************************************)
Location(start, end, filename) ==
    [start |-> start, end |-> end, filename |-> filename]

Var(text, location) == [kind |-> "Var", text |-> text, location |-> location]

Term_Int(value, location) ==
    [kind |-> "Int", value |-> value, location |-> location]
Term_Str(value, location) ==
    [kind |-> "Str", value |-> value, location |-> location]
Term_Bool(value, location) ==
    [kind |-> "Bool", value |-> value, location |-> location]
Term_Let(name, value, next, location) ==
    [kind |-> "Let", name |-> name, value |-> value, next |-> next,
     location |-> location]
Term_If(condition, then, otherwise, location) ==
    [kind |-> "If", condition |-> condition, then |-> then,
     otherwise |-> otherwise, location |-> location]
Term_Binary(lhs, op, rhs, location) ==
    [kind |-> "Binary", lhs |-> lhs, op |-> op, rhs |-> rhs,
     location |-> location]
Term_Function(parameters, value, location) ==
    [kind |-> "Function", parameters |-> parameters, value |-> value,
     location |-> location]
Term_Call(callee, arguments, location) ==
    [kind |-> "Call", callee |-> callee, arguments |-> arguments,
     location |-> location]
Term_Print(value, location) ==
    [kind |-> "Print", value |-> value, location |-> location]
Term_Tuple(first, second, location) ==
    [kind |-> "Tuple", first |-> first, second |-> second,
     location |-> location]
Term_First(value, location) ==
    [kind |-> "First", value |-> value, location |-> location]
Term_Second(value, location) ==
    [kind |-> "Second", value |-> value, location |-> location]

BinaryOp ==
    {"Add", "Sub", "Mul", "Div", "Rem", "Eq", "Neq", "Lt", "Gt", "Lte", "Gte",
     "And", "Or"}

\* a location() that forgets where the term is
Element_location_lost(term) == Location(0, 0, term.location.filename)

\* impl Element for Term: every variant answers with its own location field
Element_location(term) == term.location

\* a purity rule under which every term is pure
is_pure_always(term) == TRUE

\* Term::is_pure: shallow, only Function delegates to its body
RECURSIVE is_pure(_)
is_pure(term) ==
    CASE term.kind = "Function" -> is_pure(term.value)
      [] term.kind = "Print" -> FALSE
      [] OTHER -> TRUE

(***************************************************************************)
(* interpreter.rs: values, their display form and their hash.              *)
(***************************************************************************)
Value_Closure(parameters, body, context) ==
    [kind |-> "Closure", parameters |-> parameters, body |-> body,
     context |-> context]
Value_Int(int) == [kind |-> "Int", value |-> int]
Value_Str(string) == [kind |-> "Str", value |-> string]
Value_Bool(bool) == [kind |-> "Bool", value |-> bool]
Value_Tuple(first, second) ==
    [kind |-> "Tuple", first |-> first, second |-> second]

Digit(d) ==
    CASE d = 0 -> "0" [] d = 1 -> "1" [] d = 2 -> "2" [] d = 3 -> "3"
      [] d = 4 -> "4" [] d = 5 -> "5" [] d = 6 -> "6" [] d = 7 -> "7"
      [] d = 8 -> "8" [] d = 9 -> "9"

RECURSIVE Nat_to_string(_)
Nat_to_string(n) ==
    IF n < 10 THEN Digit(n) ELSE Nat_to_string(n \div 10) \o Digit(n % 10)

\* i64::to_string: decimal, with a sign for negative numbers
i64_to_string(int) ==
    IF int < 0 THEN "-" \o Nat_to_string(0 - int) ELSE Nat_to_string(int)

bool_to_string(bool) == IF bool THEN "true" ELSE "false"

\* impl Display for Value
RECURSIVE Value_to_string(_)
Value_to_string(value) ==
    CASE value.kind = "Closure" -> "[closure]"
      [] value.kind = "Int" -> i64_to_string(value.value)
      [] value.kind = "Str" -> value.value
      [] value.kind = "Bool" -> bool_to_string(value.value)
      [] value.kind = "Tuple" ->
            "(" \o Value_to_string(value.first) \o ", "
                \o Value_to_string(value.second) \o ")"

\* impl Display for Tuple
Tuple_to_string(tuple) ==
    "(" \o Value_to_string(tuple.first) \o ", "
        \o Value_to_string(tuple.second) \o ")"

\* a hash that recurses into the components of a tuple, and so reaches the
\* Closure arm for a closure inside a tuple
RECURSIVE Value_hash_structural(_)
Value_hash_structural(value) ==
    CASE value.kind = "Closure" -> [panic |-> TRUE, fed |-> ""]
      [] value.kind = "Int" ->
            [panic |-> FALSE, fed |-> "Int(" \o i64_to_string(value.value) \o ")"]
      [] value.kind = "Str" ->
            [panic |-> FALSE, fed |-> "Str(" \o value.value \o ")"]
      [] value.kind = "Bool" ->
            [panic |-> FALSE, fed |-> "Bool(" \o bool_to_string(value.value) \o ")"]
      [] value.kind = "Tuple" ->
            LET first == Value_hash_structural(value.first)
                second == Value_hash_structural(value.second)
            IN  [panic |-> first.panic \/ second.panic,
                 fed |-> "Tuple(" \o first.fed \o ", " \o second.fed \o ")"]

\* impl Hash for Value: the text fed to the hasher, or the panic of the
\* Closure arm
Value_hash(value) ==
    CASE value.kind = "Closure" -> [panic |-> TRUE, fed |-> ""]
      [] value.kind = "Int" ->
            [panic |-> FALSE, fed |-> "Int(" \o i64_to_string(value.value) \o ")"]
      [] value.kind = "Str" ->
            [panic |-> FALSE, fed |-> "Str(" \o value.value \o ")"]
      [] value.kind = "Bool" ->
            [panic |-> FALSE, fed |-> "Bool(" \o bool_to_string(value.value) \o ")"]
      [] value.kind = "Tuple" ->
            [panic |-> FALSE, fed |-> "Tuple(" \o Tuple_to_string(value) \o ")"]

(***************************************************************************)
(* Option and Result.                                                      *)
(***************************************************************************)
None == [tag |-> "None"]
Some(x) == [tag |-> "Some", some |-> x]
Ok(value) == [tag |-> "Ok", value |-> value]
Err(error) == [tag |-> "Err", error |-> error]
\* no Result is waiting: the function on top of the stack has just been called
NoRet == [tag |-> "Pending"]
\* the process was aborted by panic!
Panic == [tag |-> "Panic"]

RuntimeError(message, full_text, location) ==
    [message |-> message, full_text |-> full_text, location |-> location]

(***************************************************************************)
(* Context: HashMap<String, Value>.                                        *)
(***************************************************************************)
Context_new == [n \in {} |-> None]
Context_insert(context, name, value) == (name :> value) @@ context
\* a lookup that finds nothing
Context_get_nothing(context, name) == None

Context_get(context, name) ==
    IF name \in DOMAIN context THEN Some(context[name]) ELSE None

(***************************************************************************)
(* Value::binary_op, the `compare` of the value operations.                *)
(* Div and Rem truncate toward zero, as i64 division does.                 *)
(***************************************************************************)
Abs(n) == IF n < 0 THEN 0 - n ELSE n
i64_div(a, b) ==
    IF (a < 0) = (b < 0) THEN Abs(a) \div Abs(b) ELSE 0 - (Abs(a) \div Abs(b))
i64_rem(a, b) == a - b * i64_div(a, b)

InvalidOperand(binary) ==
    Err(RuntimeError("invalid operand", "invalid operand", binary.location))
DivisionByZero(binary) ==
    Err(RuntimeError("division by zero", "division by zero", binary.location))

binary_op(lhs, binary, rhs) ==
    LET op == binary.op
        ints == lhs.kind = "Int" /\ rhs.kind = "Int"
        bools == lhs.kind = "Bool" /\ rhs.kind = "Bool"
        l == lhs.value
        r == rhs.value
    IN  CASE op = "Add" ->
                IF ints THEN Ok(Value_Int(l + r))
                ELSE IF (lhs.kind = "Str" \/ rhs.kind = "Str")
                        /\ lhs.kind # "Closure" /\ rhs.kind # "Closure"
                     THEN Ok(Value_Str(Value_to_string(lhs) \o Value_to_string(rhs)))
                     ELSE InvalidOperand(binary)
          [] op = "Sub" -> IF ints THEN Ok(Value_Int(l - r)) ELSE InvalidOperand(binary)
          [] op = "Mul" -> IF ints THEN Ok(Value_Int(l * r)) ELSE InvalidOperand(binary)
          [] op = "Div" ->
                IF ~ints THEN InvalidOperand(binary)
                ELSE IF r = 0 THEN DivisionByZero(binary)
                     ELSE Ok(Value_Int(i64_div(l, r)))
          [] op = "Rem" ->
                IF ~ints THEN InvalidOperand(binary)
                ELSE IF r = 0 THEN DivisionByZero(binary)
                     ELSE Ok(Value_Int(i64_rem(l, r)))
          [] op = "Eq" ->
                IF lhs.kind = rhs.kind /\ lhs.kind # "Closure"
                THEN Ok(Value_Bool(lhs = rhs)) ELSE InvalidOperand(binary)
          [] op = "Neq" ->
                IF lhs.kind = rhs.kind /\ lhs.kind # "Closure"
                THEN Ok(Value_Bool(lhs # rhs)) ELSE InvalidOperand(binary)
          [] op = "Lt" -> IF ints THEN Ok(Value_Bool(l < r)) ELSE InvalidOperand(binary)
          [] op = "Gt" -> IF ints THEN Ok(Value_Bool(l > r)) ELSE InvalidOperand(binary)
          [] op = "Lte" -> IF ints THEN Ok(Value_Bool(l <= r)) ELSE InvalidOperand(binary)
          [] op = "Gte" -> IF ints THEN Ok(Value_Bool(l >= r)) ELSE InvalidOperand(binary)
          [] op = "And" -> IF bools THEN Ok(Value_Bool(l /\ r)) ELSE InvalidOperand(binary)
          [] op = "Or" -> IF bools THEN Ok(Value_Bool(l \/ r)) ELSE InvalidOperand(binary)

(***************************************************************************)
(* The memoization cache.                                                  *)
(***************************************************************************)
Cache_new == [k \in {} |-> None]
Cache_insert(c, key, value) == (key :> value) @@ c

\* cache_key without the Closure arm: every argument is hashed, a closure by
\* its display form
cache_key_no_bypass(body, arguments) ==
    Some([body |-> body,
          arguments |-> [i \in DOMAIN arguments |-> Value_to_string(arguments[i])]])

\* cache_key: None as soon as one argument is a closure; otherwise the digest
\* of (body, the arguments' digests).  DefaultHasher is taken to be free of
\* collisions, so a digest is identified with what was fed to the hasher.
cache_key(body, arguments) ==
    LET hashed == [i \in DOMAIN arguments |->
                      IF arguments[i].kind = "Closure" THEN None
                      ELSE Some(Value_hash(arguments[i]))]
    IN  IF \E i \in DOMAIN hashed : hashed[i].tag = "None" THEN None
        ELSE IF \E i \in DOMAIN hashed : hashed[i].some.panic THEN Panic
        ELSE Some([body |-> body,
                   arguments |-> [i \in DOMAIN hashed |-> hashed[i].some.fed]])

(***************************************************************************)
(* The machine: activation records, calls and returns.                     *)
(***************************************************************************)
NoLocals == [unit |-> TRUE]

\* eval: the dispatch on the term's variant
eval_fn(term) ==
    CASE term.kind = "Let" -> "eval_let"
      [] term.kind \in {"Int", "Str", "Bool"} -> "eval"
      [] term.kind = "Function" -> "eval_function"
      [] term.kind = "Call" -> "eval_call"
      [] term.kind = "If" -> "eval_if"
      [] term.kind = "Binary" -> "eval_binary"
      [] term.kind = "Var" -> "eval_var"
      [] term.kind = "Tuple" -> "eval_tuple"
      [] term.kind = "First" -> "eval_first"
      [] term.kind = "Second" -> "eval_second"
      [] term.kind = "Print" -> "eval_print"

\* a call eval(term, context, cache, io)
eval_of(term, context) ==
    [fn |-> eval_fn(term), term |-> term, context |-> context,
     locals |-> NoLocals]

\* a call eval_memo(body, arguments, context, cache, io)
eval_memo_of(body, arguments, context) ==
    [fn |-> "eval_memo", term |-> body, context |-> context,
     locals |-> [arguments |-> arguments]]

Top == stack[Len(stack)]

\* what a step does: call a function (and wait for it at pc), return a Result,
\* or abort the process; with the heap, cache and output it leaves behind
Calls(pc, locals, callee) ==
    [act |-> "call", pc |-> pc, locals |-> locals, callee |-> callee,
     heap |-> heap, cache |-> cache, io |-> io]
Returns(result) ==
    [act |-> "return", result |-> result,
     heap |-> heap, cache |-> cache, io |-> io]
Aborts ==
    [act |-> "panic", heap |-> heap, cache |-> cache, io |-> io]

\* the activation record of a call; o0, d0 and ctx0 remember how much had
\* been printed, how many activations had completed and what the context
\* held when it was called, kids collects what its own calls returned (id is
\* the place of the call in done, where heap1 is the heap it left behind)
Activation(callee, o0, d0, ctx0) ==
    [fn |-> callee.fn, pc |-> "start", term |-> callee.term,
     context |-> callee.context, locals |-> callee.locals,
     o0 |-> o0, d0 |-> d0, ctx0 |-> ctx0, kids |-> <<>>]

Apply(d) ==
    LET f == Top
        n == Len(stack)
    IN  /\ heap' = d.heap
        /\ cache' = d.cache
        /\ io' = d.io
        /\ IF d.act = "call"
           THEN /\ n < MaxDepth
                /\ stack' = Append(
                       [stack EXCEPT ![n] = [f EXCEPT !.pc = d.pc, !.locals = d.locals]],
                       Activation(d.callee, Len(d.io), Len(done),
                                  d.heap[d.callee.context]))
                /\ ret' = NoRet
                /\ done' = done
           ELSE IF d.act = "return"
           THEN LET kid == [fn |-> f.fn, node |-> f.term.location,
                            context |-> f.context, id |-> Len(done) + 1,
                            s |-> f.o0, e |-> Len(d.io), result |-> d.result]
                    rec == [fn |-> f.fn, term |-> f.term, context |-> f.context,
                            locals |-> f.locals, result |-> d.result,
                            o0 |-> f.o0, o1 |-> Len(d.io), d0 |-> f.d0,
                            kids |-> f.kids, depth |-> n,
                            ctx0 |-> f.ctx0, ctx1 |-> d.heap[f.context],
                            cache0 |-> cache, cache1 |-> d.cache,
                            heap1 |-> d.heap]
                IN  /\ stack' = IF n = 1 THEN <<>>
                                ELSE [SubSeq(stack, 1, n - 1) EXCEPT
                                         ![n - 1].kids = Append(@, kid)]
                    /\ ret' = d.result
                    /\ done' = Append(done, rec)
           ELSE /\ stack' = <<>>
                /\ ret' = Panic
                /\ done' = done

(***************************************************************************)
(* The functions of interpreter.rs, one step at a time.  f is the          *)
(* activation record on top of the stack; at every pc but "start", ret is  *)
(* the Result of the call the function was waiting for, and `?` returns it *)
(* to the caller when it is an Err.                                        *)
(***************************************************************************)

\* eval, the literal arms: Int, Str and Bool evaluate to themselves
eval_step(f) ==
    CASE f.term.kind = "Int" -> Returns(Ok(Value_Int(f.term.value)))
      [] f.term.kind = "Str" -> Returns(Ok(Value_Str(f.term.value)))
      [] f.term.kind = "Bool" -> Returns(Ok(Value_Bool(f.term.value)))

\* eval_let without the insert into the closure's own context
self_patch_skipped(h, closure, name) == h

\* eval_let: closure.context.borrow_mut().insert(name, self_)
self_patch(h, closure, name) ==
    [h EXCEPT ![closure.context] = Context_insert(@, name, closure)]

\* eval_let evaluating let_.next where it should evaluate let_.value
eval_let_value_slip(let_) == let_.next

\* eval_let: the term of the first call of eval
eval_let_value(let_) == let_.value

\* eval_let: the term of the final call of eval
eval_let_next(let_) == let_.next

eval_let_step(f) ==
    LET let_ == f.term
        name == let_.name.text
    IN  IF f.pc = "start"
        THEN Calls("value", f.locals, eval_of(eval_let_value(let_), f.context))
        ELSE IF f.pc = "value"
        THEN IF ret.tag = "Err" THEN Returns(ret)
             ELSE LET value == ret.value
                      h1 == IF value.kind = "Closure"
                            THEN self_patch(heap, value, name) ELSE heap
                      h2 == [h1 EXCEPT ![f.context] = Context_insert(@, name, value)]
                  IN  [Calls("next", f.locals, eval_of(eval_let_next(let_), f.context))
                          EXCEPT !.heap = h2]
        ELSE Returns(ret)

\* a zip that loses the last pair
zip_short(parameters, arguments) ==
    LET n == IF Len(parameters) < Len(arguments)
             THEN Len(parameters) ELSE Len(arguments)
    IN  [i \in 1..(IF n > 0 THEN n - 1 ELSE 0) |->
            [parameter |-> parameters[i], argument |-> arguments[i]]]

\* eval_call: closure.parameters zipped with call.arguments
zip(parameters, arguments) ==
    LET n == IF Len(parameters) < Len(arguments)
             THEN Len(parameters) ELSE Len(arguments)
    IN  [i \in 1..n |-> [parameter |-> parameters[i], argument |-> arguments[i]]]

\* eval_call evaluating the arguments in the context built for the body
argument_context_slip(f, locals) == locals.new_context

\* eval_call: the context an argument is evaluated in, the caller's
argument_context(f, locals) == f.context

\* eval_call: the head of the loop over the pairs and, after the last pair,
\* the match on closure.body.is_pure()
eval_call_loop(f, locals, h) ==
    LET closure == locals.closure
        pairs == zip(closure.parameters, f.term.arguments)
        i == Len(locals.arguments) + 1
    IN  IF i <= Len(pairs)
        THEN [Calls("argument", locals, eval_of(pairs[i].argument, argument_context(f, locals)))
                 EXCEPT !.heap = h]
        ELSE IF is_pure(closure.body)
        THEN [Calls("body", locals,
                    eval_memo_of(closure.body, locals.arguments, locals.new_context))
                 EXCEPT !.heap = h]
        ELSE [Calls("body", locals, eval_of(closure.body, locals.new_context))
                 EXCEPT !.heap = h]

eval_call_step(f) ==
    LET call == f.term
    IN  IF f.pc = "start"
        THEN Calls("callee", f.locals, eval_of(call.callee, f.context))
        ELSE IF f.pc = "callee"
        THEN IF ret.tag = "Err" THEN Returns(ret)
             ELSE IF ret.value.kind = "Closure"
             THEN LET closure == ret.value
                      \* let mut new_context = closure.context.borrow_mut().clone()
                      h1 == Append(heap, heap[closure.context])
                      l1 == [closure |-> closure, new_context |-> Len(h1),
                             arguments |-> <<>>]
                  IN  eval_call_loop(f, l1, h1)
             ELSE Returns(Err(RuntimeError(
                      "invalid function call",
                      Value_to_string(ret.value) \o " cannot be called as a function",
                      call.location)))
        ELSE IF f.pc = "argument"
        THEN IF ret.tag = "Err" THEN Returns(ret)
             ELSE LET i == Len(f.locals.arguments) + 1
                      parameter == f.locals.closure.parameters[i]
                      l1 == [f.locals EXCEPT !.arguments = Append(@, ret.value)]
                      h1 == [heap EXCEPT ![f.locals.new_context] =
                                Context_insert(@, parameter.text, ret.value)]
                  IN  eval_call_loop(f, l1, h1)
        ELSE Returns(ret)

\* eval_memo: cache.insert(cache_key, value.clone())
eval_memo_store(c, key, value) == Cache_insert(c, key, value)

eval_memo_step(f) ==
    LET body == f.term
        key == cache_key(body, f.locals.arguments)
    IN  IF f.pc = "start"
        THEN IF key.tag = "Panic" THEN Aborts
             ELSE IF key.tag = "Some"
             THEN IF key.some \in DOMAIN cache
                  THEN Returns(Ok(cache[key.some]))
                  ELSE Calls("miss", f.locals, eval_of(body, f.context))
             ELSE Calls("direct", f.locals, eval_of(body, f.context))
        ELSE IF f.pc = "miss"
        THEN IF ret.tag = "Err" THEN Returns(ret)
             ELSE [Returns(Ok(ret.value))
                      EXCEPT !.cache = eval_memo_store(cache, key.some, ret.value)]
        ELSE Returns(ret)

\* eval_if with the arms of the match on the condition exchanged
eval_if_step_exchanged(f) ==
    IF f.pc = "start"
    THEN Calls("condition", f.locals, eval_of(f.term.condition, f.context))
    ELSE IF f.pc = "condition"
    THEN IF ret.tag = "Err" THEN Returns(ret)
         ELSE IF ret.value.kind = "Bool"
         THEN IF ret.value.value
              THEN Calls("branch", f.locals, eval_of(f.term.otherwise, f.context))
              ELSE Calls("branch", f.locals, eval_of(f.term.then, f.context))
         ELSE Returns(Err(RuntimeError(
                  "invalid if condition",
                  Value_to_string(ret.value)
                      \o " can't be used as an if condition. use a boolean instead",
                  Element_location(f.term.condition))))
    ELSE Returns(ret)

eval_if_step(f) ==
    LET if_ == f.term
    IN  IF f.pc = "start"
        THEN Calls("condition", f.locals, eval_of(if_.condition, f.context))
        ELSE IF f.pc = "condition"
        THEN IF ret.tag = "Err" THEN Returns(ret)
             ELSE IF ret.value.kind = "Bool"
             THEN IF ret.value.value
                  THEN Calls("branch", f.locals, eval_of(if_.then, f.context))
                  ELSE Calls("branch", f.locals, eval_of(if_.otherwise, f.context))
             ELSE Returns(Err(RuntimeError(
                      "invalid if condition",
                      Value_to_string(ret.value)
                          \o " can't be used as an if condition. use a boolean instead",
                      Element_location(if_.condition))))
        ELSE Returns(ret)

\* eval_binary: the term of the first call of eval
eval_binary_lhs(binary) == binary.lhs

\* eval_binary evaluating binary.lhs a second time instead of binary.rhs
eval_binary_rhs_slip(binary) == binary.lhs

\* eval_binary: the term of the second call of eval
eval_binary_rhs(binary) == binary.rhs

eval_binary_step(f) ==
    LET binary == f.term
    IN  IF f.pc = "start"
        THEN Calls("lhs", f.locals, eval_of(eval_binary_lhs(binary), f.context))
        ELSE IF f.pc = "lhs"
        THEN IF ret.tag = "Err" THEN Returns(ret)
             ELSE Calls("rhs", [lhs |-> ret.value],
                        eval_of(eval_binary_rhs(binary), f.context))
        ELSE IF ret.tag = "Err" THEN Returns(ret)
             ELSE Returns(binary_op(f.locals.lhs, binary, ret.value))

eval_var_step(f) ==
    LET var == f.term
        found == Context_get(heap[f.context], var.text)
    IN  IF found.tag = "Some" THEN Returns(Ok(found.some))
        ELSE Returns(Err(RuntimeError(
                 "unbound variable \"" \o var.text \o "\"",
                 "variable \"" \o var.text
                     \o "\" was not defined in the current scope",
                 var.location)))

\* eval_tuple evaluating tuple.second where it should evaluate tuple.first
eval_tuple_first_slip(tuple) == tuple.second

\* eval_tuple: the term of the first call of eval
eval_tuple_first(tuple) == tuple.first

\* eval_tuple: the term of the second call of eval
eval_tuple_second(tuple) == tuple.second

eval_tuple_step(f) ==
    LET tuple == f.term
    IN  IF f.pc = "start"
        THEN Calls("first", f.locals, eval_of(eval_tuple_first(tuple), f.context))
        ELSE IF f.pc = "first"
        THEN IF ret.tag = "Err" THEN Returns(ret)
             ELSE Calls("second", [first |-> ret.value],
                        eval_of(eval_tuple_second(tuple), f.context))
        ELSE IF ret.tag = "Err" THEN Returns(ret)
             ELSE Returns(Ok(Value_Tuple(f.locals.first, ret.value)))

\* eval_first taking the other component
Tuple_first_slip(tuple) == tuple.second

\* eval_first: the arm Value::Tuple(Tuple { first, second: _ }) => Ok(*first)
Tuple_first(tuple) == tuple.first

\* eval_second: the arm Value::Tuple(Tuple { first: _, second }) => Ok(*second)
Tuple_second(tuple) == tuple.second

eval_first_step(f) ==
    LET first == f.term
    IN  IF f.pc = "start"
        THEN Calls("value", f.locals, eval_of(first.value, f.context))
        ELSE IF ret.tag = "Err" THEN Returns(ret)
             ELSE IF ret.value.kind = "Tuple" THEN Returns(Ok(Tuple_first(ret.value)))
             ELSE Returns(Err(RuntimeError(
                      "invalid expression",
                      "cannot use first operation from anything but a tuple",
                      first.location)))

eval_second_step(f) ==
    LET second == f.term
    IN  IF f.pc = "start"
        THEN Calls("value", f.locals, eval_of(second.value, f.context))
        ELSE IF ret.tag = "Err" THEN Returns(ret)
             ELSE IF ret.value.kind = "Tuple" THEN Returns(Ok(Tuple_second(ret.value)))
             ELSE Returns(Err(RuntimeError(
                      "invalid expression",
                      "cannot use second operation from anything but a tuple",
                      second.location)))

\* a Printer that returns the value and records nothing
Printer_print_silent(out, value) == [io |-> out, value |-> value]

\* Printer::print: records the value and its display form, returns the value
Printer_print(out, value) ==
    [io |-> Append(out, [value |-> value, line |-> Value_to_string(value)]),
     value |-> value]

\* eval_print without the `?`: the Printer is called after the operand failed
eval_print_step_after_error(f) ==
    IF f.pc = "start"
    THEN Calls("value", f.locals, eval_of(f.term.value, f.context))
    ELSE IF ret.tag = "Err"
         THEN [Returns(ret) EXCEPT
                  !.io = Printer_print(io, Value_Str(ret.error.message)).io]
         ELSE LET printed == Printer_print(io, ret.value)
              IN  [Returns(Ok(printed.value)) EXCEPT !.io = printed.io]

eval_print_step(f) ==
    LET print_ == f.term
    IN  IF f.pc = "start"
        THEN Calls("value", f.locals, eval_of(print_.value, f.context))
        ELSE IF ret.tag = "Err" THEN Returns(ret)
             ELSE LET printed == Printer_print(io, ret.value)
                  IN  [Returns(Ok(printed.value)) EXCEPT !.io = printed.io]

\* eval_function: Rc::new(RefCell::new(context.clone()))
capture(h, context) == Append(h, h[context])

eval_function_step(f) ==
    LET function == f.term
        h1 == capture(heap, f.context)
    IN  [Returns(Ok(Value_Closure(function.parameters, function.value, Len(h1))))
            EXCEPT !.heap = h1]

(***************************************************************************)
(* The actions: the function on top of the stack takes its next step.      *)
(***************************************************************************)
Running(fn) == stack # <<>> /\ Top.fn = fn

eval == Running("eval") /\ Apply(eval_step(Top))
eval_let == Running("eval_let") /\ Apply(eval_let_step(Top))
eval_function == Running("eval_function") /\ Apply(eval_function_step(Top))
eval_call == Running("eval_call") /\ Apply(eval_call_step(Top))
eval_memo == Running("eval_memo") /\ Apply(eval_memo_step(Top))
eval_if == Running("eval_if") /\ Apply(eval_if_step(Top))
eval_binary == Running("eval_binary") /\ Apply(eval_binary_step(Top))
eval_var == Running("eval_var") /\ Apply(eval_var_step(Top))
eval_tuple == Running("eval_tuple") /\ Apply(eval_tuple_step(Top))
eval_first == Running("eval_first") /\ Apply(eval_first_step(Top))
eval_second == Running("eval_second") /\ Apply(eval_second_step(Top))
eval_print == Running("eval_print") /\ Apply(eval_print_step(Top))

Next ==
    \/ eval
    \/ eval_let
    \/ eval_function
    \/ eval_call
    \/ eval_memo
    \/ eval_if
    \/ eval_binary
    \/ eval_var
    \/ eval_tuple
    \/ eval_first
    \/ eval_second
    \/ eval_print

(***************************************************************************)
(* The programs evaluated.  Terms are written without locations and then   *)
(* given the locations a parser would give them: one per node, distinct.   *)
(***************************************************************************)
NoLocation == Location(0, 0, "tests")

int(n) == Term_Int(n, NoLocation)
str(s) == Term_Str(s, NoLocation)
bool(b) == Term_Bool(b, NoLocation)
var_(text) == Var(text, NoLocation)
let_(name, value, next) == Term_Let(Var(name, NoLocation), value, next, NoLocation)
if_(condition, then, otherwise) == Term_If(condition, then, otherwise, NoLocation)
binary(lhs, op, rhs) == Term_Binary(lhs, op, rhs, NoLocation)
add(lhs, rhs) == binary(lhs, "Add", rhs)
function(names, body) ==
    Term_Function([i \in DOMAIN names |-> Var(names[i], NoLocation)], body, NoLocation)
call(callee, arguments) == Term_Call(callee, arguments, NoLocation)
print_(value) == Term_Print(value, NoLocation)
tuple(first, second) == Term_Tuple(first, second, NoLocation)
first_(value) == Term_First(value, NoLocation)
second_(value) == Term_Second(value, NoLocation)

\* the node at position p of the tree gets Location(p, p, "tests"); the k-th
\* child of the node at p is at 10 * p + k
At(p) == Location(p, p, "tests")

RECURSIVE Locate(_, _)
Locate(t, p) ==
    CASE t.kind \in {"Int", "Str", "Bool", "Var"} -> [t EXCEPT !.location = At(p)]
      [] t.kind = "Let" ->
            [t EXCEPT !.location = At(p),
                      !.name = [@ EXCEPT !.location = At(10 * p)],
                      !.value = Locate(@, 10 * p + 1),
                      !.next = Locate(@, 10 * p + 2)]
      [] t.kind = "If" ->
            [t EXCEPT !.location = At(p),
                      !.condition = Locate(@, 10 * p + 1),
                      !.then = Locate(@, 10 * p + 2),
                      !.otherwise = Locate(@, 10 * p + 3)]
      [] t.kind = "Binary" ->
            [t EXCEPT !.location = At(p),
                      !.lhs = Locate(@, 10 * p + 1),
                      !.rhs = Locate(@, 10 * p + 2)]
      [] t.kind = "Function" ->
            [t EXCEPT !.location = At(p),
                      !.parameters = [i \in DOMAIN @ |->
                                         [@[i] EXCEPT !.location = At(10 * p + 5 + i)]],
                      !.value = Locate(@, 10 * p + 1)]
      [] t.kind = "Call" ->
            [t EXCEPT !.location = At(p),
                      !.callee = Locate(@, 10 * p + 1),
                      !.arguments = [i \in DOMAIN @ |-> Locate(@[i], 10 * p + 1 + i)]]
      [] t.kind \in {"Print", "First", "Second"} ->
            [t EXCEPT !.location = At(p), !.value = Locate(@, 10 * p + 1)]
      [] t.kind = "Tuple" ->
            [t EXCEPT !.location = At(p),
                      !.first = Locate(@, 10 * p + 1),
                      !.second = Locate(@, 10 * p + 2)]

Literals == {int(n) : n \in 0..MaxInt} \cup {str("a"), bool(TRUE)}

\* small operands: values, printed values, an unbound variable, a tuple
Operands ==
    Literals \cup {print_(l) : l \in Literals}
             \cup {var_("u"), tuple(print_(int(0)), print_(str("a")))}

BinaryPrograms == {binary(a, op, b) : a \in Operands, op \in BinaryOp, b \in Operands}

TuplePrograms ==
    LET tuples == {tuple(a, b) : a \in Operands, b \in Operands}
    IN  tuples \cup {first_(t) : t \in tuples} \cup {second_(t) : t \in tuples}
               \cup {print_(t) : t \in tuples}
               \cup {first_(a) : a \in Operands} \cup {second_(a) : a \in Operands}

LetPrograms ==
    LET nexts == Operands \cup {var_("x"), print_(var_("x"))}
    IN  {let_("x", a, b) : a \in Operands, b \in nexts}
        \cup {tuple(let_("x", a, var_("x")), var_("x")) : a \in Operands}
        \cup {let_("x", a, tuple(let_("x", b, print_(var_("x"))), var_("x"))) :
                 a \in Literals, b \in Operands}
        \cup {let_("_", print_(int(1)), print_(int(2))),
              let_("tuple", tuple(print_(int(1)), print_(int(2))), print_(var_("tuple"))),
              print_(add(print_(int(1)), print_(int(2))))}

IfPrograms ==
    LET branches == {print_(int(0)), print_(int(1)), var_("u")}
    IN  {if_(c, t, e) : c \in Operands \cup {bool(FALSE), print_(bool(FALSE))},
                        t \in branches, e \in branches}

\* let f = fn (n) => body in (f(a), f(b))
Bodies ==
    {var_("n"), print_(var_("n")), add(print_(var_("n")), int(1)),
     tuple(print_(var_("n")), var_("n")),
     let_("y", print_(var_("n")), var_("y")),
     function(<<"m">>, print_(var_("m"))),
     call(var_("n"), <<print_(int(0))>>)}

Arguments ==
    {int(n) : n \in 0..MaxInt}
    \cup {print_(int(0)), str("0"), tuple(int(0), int(1)), tuple(str("0"), int(1)),
          function(<<"z">>, print_(var_("z"))),
          tuple(int(0), function(<<"z">>, var_("z"))), var_("u")}

TwoCallPrograms ==
    {let_("f", function(<<"n">>, body), tuple(call(var_("f"), <<a>>), call(var_("f"), <<b>>))) :
        body \in Bodies, a \in Arguments, b \in Arguments}

\* let f = fn (parameters) => body in f(arguments): every arity against every
\* number of arguments
ArityPrograms ==
    LET names == {<<>>, <<"n">>, <<"n", "m">>}
        shown == <<print_(int(0)), print_(int(1)), print_(str("a"))>>
        args == {SubSeq(shown, 1, k) : k \in 0..3}
        bodies == {int(0), var_("n"), print_(var_("m")),
                   tuple(print_(var_("n")), var_("m"))}
    IN  {let_("f", function(ns, body), call(var_("f"), as)) :
            ns \in names, body \in bodies, as \in args}
        \cup {call(print_(function(ns, body)), as) :
                 ns \in names, body \in {int(0), print_(var_("n"))}, as \in args}
        \cup {call(a, as) : a \in Operands, as \in args}

\* let f = fn (n) => if n == 0 then 0 else print(n) + f(n - 1)
countdown ==
    function(<<"n">>,
        if_(binary(var_("n"), "Eq", int(0)),
            int(0),
            add(print_(var_("n")),
                call(var_("f"), <<binary(var_("n"), "Sub", int(1))>>))))

\* let f = fn (n) => if n < 2 then n else f(n - 1) + f(n - 2)
fib ==
    function(<<"n">>,
        if_(binary(var_("n"), "Lt", int(2)),
            var_("n"),
            add(call(var_("f"), <<binary(var_("n"), "Sub", int(1))>>),
                call(var_("f"), <<binary(var_("n"), "Sub", int(2))>>))))

\* a body that is a Print: never memoized
loud ==
    function(<<"n">>,
        print_(if_(binary(var_("n"), "Eq", int(0)),
                   int(0),
                   call(var_("f"), <<binary(var_("n"), "Sub", int(1))>>))))

RecursivePrograms ==
    {let_("f", g, call(var_("f"), <<int(k)>>)) :
        g \in {countdown, fib, loud}, k \in 0..(MaxInt + 1)}
    \cup {let_("f", g, tuple(call(var_("f"), <<int(k)>>), call(var_("f"), <<print_(int(k))>>))) :
        g \in {countdown, fib, loud}, k \in 0..(MaxInt + 1)}
    \cup {let_("f", countdown, let_("g", var_("f"), call(var_("g"), <<int(k)>>))) :
        k \in 0..(MaxInt + 1)}
    \cup {\* a recursion that never ends
          let_("f", function(<<"n">>, call(var_("f"), <<var_("n")>>)),
               call(var_("f"), <<int(0)>>)),
          \* a parameter with the name of the function
          let_("f", function(<<"f">>, print_(var_("f"))), call(var_("f"), <<int(0)>>)),
          \* the name bound again inside the body
          let_("f", function(<<"n">>, let_("f", var_("n"), print_(var_("f")))),
               call(var_("f"), <<int(0)>>))}

ClosurePrograms ==
    {\* let mk = fn (a) => fn (b) => a + b in (mk(1)(0), mk(2)(0))
     let_("mk", function(<<"a">>, function(<<"b">>, add(var_("a"), var_("b")))),
          tuple(call(call(var_("mk"), <<int(1)>>), <<int(0)>>),
                call(call(var_("mk"), <<int(2)>>), <<int(0)>>))),
     \* let ap = fn (g, x) => g(x) in (ap(fn (y) => print(y), 0), ap(fn (y) => print(y), 0))
     let_("ap", function(<<"g", "x">>, call(var_("g"), <<var_("x")>>)),
          tuple(call(var_("ap"), <<function(<<"y">>, print_(var_("y"))), int(0)>>),
                call(var_("ap"), <<function(<<"y">>, print_(var_("y"))), int(0)>>))),
     \* let f = fn () => y in let y = 2 in f()
     let_("f", function(<<>>, var_("y")), let_("y", int(2), call(var_("f"), <<>>))),
     \* let y = 1 in let f = fn () => y in let y = 2 in f()
     let_("y", int(1),
          let_("f", function(<<>>, var_("y")), let_("y", int(2), call(var_("f"), <<>>)))),
     \* let f = fn (x) => x in let g = fn (h) => z in f(let z = g in 0)
     let_("f", function(<<"x">>, tuple(var_("x"), var_("z"))),
          call(var_("f"), <<let_("z", var_("f"), print_(int(0)))>>)),
     \* the arguments see the caller's bindings, the body does not
     let_("f", function(<<"n">>, var_("w")),
          let_("w", int(1), call(var_("f"), <<print_(var_("w"))>>))),
     let_("n", int(1),
          let_("f", function(<<"n", "m">>, tuple(var_("n"), var_("m"))),
               call(var_("f"), <<print_(int(0)), print_(var_("n"))>>))),
     \* let mk = fn (c, h) => fn (n) => if c then h(n) + 1 else 0 in
     \* let b = mk(false, 0) in let a = mk(true, b) in (a(0), b(0))
     let_("mk",
          function(<<"c", "h">>,
              function(<<"n">>,
                  if_(var_("c"), add(call(var_("h"), <<var_("n")>>), int(1)), int(0)))),
          let_("b", call(var_("mk"), <<bool(FALSE), int(0)>>),
               let_("a", call(var_("mk"), <<bool(TRUE), var_("b")>>),
                    tuple(call(var_("a"), <<int(0)>>), call(var_("b"), <<int(0)>>))))),
     \* the same, ending in (a(0), a(0))
     let_("mk",
          function(<<"c", "h">>,
              function(<<"n">>,
                  if_(var_("c"), add(call(var_("h"), <<var_("n")>>), int(1)), int(0)))),
          let_("b", call(var_("mk"), <<bool(FALSE), int(0)>>),
               let_("a", call(var_("mk"), <<bool(TRUE), var_("b")>>),
                    tuple(call(var_("a"), <<int(0)>>), call(var_("a"), <<int(0)>>)))))}

Programs ==
    BinaryPrograms \cup TuplePrograms \cup LetPrograms \cup IfPrograms
        \cup TwoCallPrograms \cup ArityPrograms \cup RecursivePrograms
        \cup ClosurePrograms

(***************************************************************************)
(* The run: eval(term, &mut Context::new(), &mut Cache::new(), &mut io).   *)
(***************************************************************************)
Init ==
    \E program \in Programs :
        /\ stack = <<Activation(eval_of(Locate(program, 1), 1), 0, 0, Context_new)>>
        /\ ret = NoRet
        /\ heap = <<Context_new>>
        /\ cache = Cache_new
        /\ io = <<>>
        /\ done = <<>>

Spec == Init /\ [][Next]_vars

(***************************************************************************)
(* Properties.  Last is the activation that completed most recently; its   *)
(* kids are the calls it made, in order, each with the term evaluated      *)
(* (node), the context it was evaluated in, the length of the output       *)
(* before (s) and after (e) and the Result.                                *)
(***************************************************************************)
Completed == done # <<>>
Last == done[Len(done)]
\* the activation that completed just before Last
Previous == done[Len(done) - 1]

IsOk(result) == result.tag = "Ok"
Printed(kid) == kid.e > kid.s
HasClosure(r) == "closure" \in DOMAIN r.locals
Hashable(arguments) == \A i \in DOMAIN arguments : arguments[i].kind # "Closure"
\* the pairs of the call have all been evaluated
ArgumentsBound(r) ==
    Len(r.locals.arguments) = Len(zip(r.locals.closure.parameters, r.term.arguments))

\* C1: memoization transparency.  When a call of a closure with a pure body
\* and hashable arguments has completed successfully, a later call of the
\* same closure with equal arguments returns the same result, goes through
\* eval_memo without evaluating the body, and prints nothing after its
\* arguments.  (Fails: an enclosing miss of another closure with the same
\* body and arguments stores its own result over the first call's.)
C1_MemoizationTransparency ==
    Completed =>
        LET r == Last
        IN  (r.fn = "eval_call" /\ HasClosure(r)) =>
                \A i \in 1..r.d0 :
                    LET q == done[i]
                    IN  ( /\ q.fn = "eval_call"
                          /\ HasClosure(q)
                          /\ IsOk(q.result)
                          /\ q.locals.closure = r.locals.closure
                          /\ q.locals.arguments = r.locals.arguments
                          /\ ArgumentsBound(r)
                          /\ is_pure(r.locals.closure.body)
                          /\ Hashable(r.locals.arguments) )
                        => /\ r.result = q.result
                           /\ Previous.fn = "eval_memo"
                           /\ Previous.term = r.locals.closure.body
                           /\ Previous.kids = <<>>
                           /\ Previous.o0 = r.o1
                           /\ r.kids[Len(r.kids)].s = r.o1

\* C2: a Let that evaluates successfully has evaluated `value`, then `next`,
\* printing nothing itself: everything `value` printed precedes everything
\* `next` printed, and the result of the Let is the result of `next`.
C2_LetOrder ==
    Completed =>
        LET r == Last
        IN  (r.fn = "eval_let" /\ IsOk(r.result)) =>
                /\ Len(r.kids) = 2
                /\ r.kids[1].node = r.term.value.location
                /\ r.kids[2].node = r.term.next.location
                /\ r.o0 = r.kids[1].s
                /\ r.kids[1].e = r.kids[2].s
                /\ r.kids[2].e = r.o1
                /\ r.result = r.kids[2].result

\* a Let whose value and whose next have both printed
C2_Witness ==
    /\ Completed
    /\ Last.fn = "eval_let"
    /\ IsOk(Last.result)
    /\ Len(Last.kids) = 2
    /\ Printed(Last.kids[1])
    /\ Printed(Last.kids[2])

\* C3: a Binary evaluates lhs first and to its end, rhs only after lhs has
\* succeeded, and applies the operator only to the values of both: an
\* activation waiting for rhs holds the value of lhs, what lhs printed
\* precedes what rhs printed, and a result that is not an operand's error is
\* the operator applied to the two values.
C3_BinaryOrder ==
    /\ \A k \in 1..Len(stack) :
          (stack[k].fn = "eval_binary" /\ stack[k].pc = "rhs") =>
              /\ Len(stack[k].kids) >= 1
              /\ stack[k].kids[1].node = stack[k].term.lhs.location
              /\ IsOk(stack[k].kids[1].result)
              /\ stack[k].locals.lhs = stack[k].kids[1].result.value
              /\ k < Len(stack) => stack[k + 1].o0 >= stack[k].kids[1].e
    /\ Completed =>
          LET r == Last
          IN  r.fn = "eval_binary" =>
                  /\ Len(r.kids) \in {1, 2}
                  /\ r.kids[1].node = r.term.lhs.location
                  /\ r.kids[1].s = r.o0
                  /\ Len(r.kids) = 1 =>
                        /\ ~IsOk(r.kids[1].result)
                        /\ r.result = r.kids[1].result
                        /\ r.o1 = r.kids[1].e
                  /\ Len(r.kids) = 2 =>
                        /\ IsOk(r.kids[1].result)
                        /\ r.kids[2].node = r.term.rhs.location
                        /\ r.kids[1].e = r.kids[2].s
                        /\ r.kids[2].e = r.o1
                        /\ r.result =
                              IF IsOk(r.kids[2].result)
                              THEN binary_op(r.kids[1].result.value, r.term,
                                             r.kids[2].result.value)
                              ELSE r.kids[2].result

\* a Binary whose operands have both printed and whose operator was applied
C3_Witness ==
    /\ Completed
    /\ Last.fn = "eval_binary"
    /\ IsOk(Last.result)
    /\ Len(Last.kids) = 2
    /\ Printed(Last.kids[1])
    /\ Printed(Last.kids[2])

\* C4: a Tuple evaluates first, then second; what first printed precedes what
\* second printed, and the result is the tuple of the two values in that
\* order.
C4_TupleOrder ==
    Completed =>
        LET r == Last
        IN  r.fn = "eval_tuple" =>
                /\ Len(r.kids) \in {1, 2}
                /\ r.kids[1].node = r.term.first.location
                /\ r.kids[1].s = r.o0
                /\ Len(r.kids) = 1 => r.result = r.kids[1].result /\ ~IsOk(r.result)
                /\ Len(r.kids) = 2 =>
                      /\ IsOk(r.kids[1].result)
                      /\ r.kids[2].node = r.term.second.location
                      /\ r.kids[1].e = r.kids[2].s
                      /\ r.kids[2].e = r.o1
                      /\ r.result =
                            IF IsOk(r.kids[2].result)
                            THEN Ok(Value_Tuple(r.kids[1].result.value,
                                                r.kids[2].result.value))
                            ELSE r.kids[2].result

\* a Tuple whose components have both printed, with different values
C4_Witness ==
    /\ Completed
    /\ Last.fn = "eval_tuple"
    /\ IsOk(Last.result)
    /\ Printed(Last.kids[1])
    /\ Printed(Last.kids[2])
    /\ Last.result.value.first # Last.result.value.second

\* C5: a Print that evaluates successfully calls the Printer exactly once,
\* after everything its operand printed, with the value of the operand, which
\* it returns unchanged; a Print whose operand fails prints nothing.
C5_PrintIdentity ==
    Completed =>
        LET r == Last
        IN  r.fn = "eval_print" =>
                /\ Len(r.kids) = 1
                /\ r.kids[1].node = r.term.value.location
                /\ r.kids[1].s = r.o0
                /\ r.result = r.kids[1].result
                /\ IF IsOk(r.result)
                   THEN /\ r.o1 = r.kids[1].e + 1
                        /\ Len(io) >= r.o1
                        /\ io[r.o1].value = r.kids[1].result.value
                        /\ io[r.o1].line = Value_to_string(r.kids[1].result.value)
                   ELSE r.o1 = r.kids[1].e

\* a Print of an operand that has itself printed
C5_Witness ==
    /\ Completed
    /\ Last.fn = "eval_print"
    /\ IsOk(Last.result)
    /\ Printed(Last.kids[1])
    /\ Last.o1 = Last.kids[1].e + 1

\* the Lets of a Function seen so far that have bound a closure: the name
\* and the closure
BoundLets ==
    LET binds(f) == /\ f.fn = "eval_let"
                    /\ f.term.value.kind = "Function"
                    /\ Len(f.kids) >= 1
                    /\ IsOk(f.kids[1].result)
        pair(f) == <<f.term.name.text, f.kids[1].result.value>>
    IN  {pair(stack[k]) : k \in {k \in 1..Len(stack) : binds(stack[k])}}
        \cup {pair(done[i]) : i \in {i \in 1..Len(done) : binds(done[i])}}

\* the calls whose body is being evaluated
CallsInBody ==
    {k \in 1..Len(stack) : stack[k].fn = "eval_call" /\ stack[k].pc = "body"}

\* the name is one of the parameters the call has bound
BoundParameter(c, name) ==
    \E i \in 1..Len(c.locals.arguments) : c.locals.closure.parameters[i].text = name

\* C6 as stated: every Var(name) evaluated in the context of a call of a
\* closure that a Let of a Function bound to `name` resolves to that closure.
C6_EveryVarResolvesToClosure ==
    Completed =>
        LET r == Last
        IN  r.fn = "eval_var" =>
                \A k \in CallsInBody :
                    LET c == stack[k]
                    IN  ( /\ c.locals.new_context = r.context
                          /\ <<r.term.text, c.locals.closure>> \in BoundLets )
                        => r.result = Ok(c.locals.closure)

\* C6, amended: when the body of a call of a closure that a Let of a Function
\* bound to `name` starts, the call's context binds `name` to that same
\* closure, unless the call has bound a parameter called `name`; and no
\* Var(name) evaluated in that context fails as unbound.
C6_SelfReference ==
    /\ \A k \in CallsInBody :
          LET c == stack[k]
          IN  (k = Len(stack) - 1 /\ Top.pc = "start") =>
                  \A b \in BoundLets :
                      (b[2] = c.locals.closure /\ ~BoundParameter(c, b[1])) =>
                          Context_get(heap[c.locals.new_context], b[1])
                              = Some(c.locals.closure)
    /\ Completed =>
          LET r == Last
          IN  r.fn = "eval_var" =>
                  \A k \in CallsInBody :
                      LET c == stack[k]
                      IN  ( /\ c.locals.new_context = r.context
                            /\ <<r.term.text, c.locals.closure>> \in BoundLets )
                          => IsOk(r.result)

\* inside a recursive call, made from the body of the closure, the name the
\* Let gave the closure has just resolved to the closure
C6_Witness ==
    /\ Completed
    /\ Last.fn = "eval_var"
    /\ \E k1 \in CallsInBody, k2 \in CallsInBody :
          /\ k1 < k2
          /\ stack[k1].locals.closure = stack[k2].locals.closure
          /\ stack[k2].locals.new_context = Last.context
          /\ <<Last.term.text, stack[k2].locals.closure>> \in BoundLets
          /\ Last.result = Ok(stack[k2].locals.closure)

\* C7: once a Let has returned, the enclosing context binds the Let's name
\* as it did before the Let: not at all, or to the value it shadowed.
C7_LetBindingScoped ==
    Completed =>
        LET r == Last
        IN  r.fn = "eval_let" =>
                Context_get(r.ctx1, r.term.name.text)
                    = Context_get(r.ctx0, r.term.name.text)

\* the call c has evaluated its callee and then its first n argument
\* expressions, in order, each in the caller's context and each starting where
\* the one before ended; if the body has been entered, it started after the
\* last of them, in the context built for it
EvaluatesInOrder(c, n) ==
    /\ Len(c.kids) >= 1 + n
    /\ n <= Len(c.locals.arguments)
    /\ c.kids[1].node = c.term.callee.location
    /\ c.kids[1].context = c.context
    /\ c.kids[1].s = c.o0
    /\ \A i \in 1..n :
          LET kid == c.kids[1 + i]
          IN  /\ kid.node = c.term.arguments[i].location
              /\ kid.context = c.context
              /\ kid.context # c.locals.new_context
              /\ kid.context # c.locals.closure.context
              /\ kid.s = c.kids[i].e
              /\ IsOk(kid.result)
              /\ kid.result.value = c.locals.arguments[i]
    /\ Len(c.kids) > 1 + n =>
          /\ Len(c.kids) = 2 + n
          /\ c.kids[2 + n].node = c.locals.closure.body.location
          /\ c.kids[2 + n].context = c.locals.new_context
          /\ c.kids[2 + n].s = c.kids[1 + n].e

\* the activation above call k on the stack, if any, is the body's
BodyOnTop(k) ==
    k < Len(stack) =>
        /\ stack[k + 1].term = stack[k].locals.closure.body
        /\ stack[k + 1].context = stack[k].locals.new_context
        /\ stack[k + 1].o0 = stack[k].kids[Len(stack[k].kids)].e

\* C8 as stated: a call whose body has been entered has evaluated its callee
\* and then every argument expression of the call, left to right, in the
\* caller's context.
C8_EveryArgumentEvaluated ==
    \A k \in CallsInBody :
        EvaluatesInOrder(stack[k], Len(stack[k].term.arguments)) /\ BodyOnTop(k)

\* C8, amended: a call whose callee is a closure evaluates the callee and then
\* the argument expressions that have a parameter (the first min(p, a) of
\* them), left to right, in the caller's context, and nothing else before the
\* body; an argument expression beyond the parameters is not evaluated.
C8_CallOrder ==
    /\ \A k \in CallsInBody :
          LET c == stack[k]
              m == Len(zip(c.locals.closure.parameters, c.term.arguments))
          IN  /\ EvaluatesInOrder(c, m)
              /\ Len(c.kids) = IF k < Len(stack) THEN 1 + m ELSE 2 + m
              /\ BodyOnTop(k)
    /\ Completed =>
          LET r == Last
          IN  (r.fn = "eval_call" /\ HasClosure(r) /\ ArgumentsBound(r)) =>
                  LET m == Len(r.locals.arguments)
                  IN  /\ EvaluatesInOrder(r, m)
                      /\ Len(r.kids) = 2 + m
                      /\ r.kids[2 + m].e = r.o1
                      /\ r.result = r.kids[2 + m].result

\* a call whose callee, two arguments and body have all printed
C8_Witness ==
    /\ Completed
    /\ Last.fn = "eval_call"
    /\ HasClosure(Last)
    /\ IsOk(Last.result)
    /\ Len(Last.locals.arguments) = 2
    /\ Len(Last.kids) = 4
    /\ \A i \in 1..4 : Printed(Last.kids[i])

\* C9: a call with a closure among its bound arguments evaluates the body,
\* every time: through eval_memo, which finds no key, calls eval on the body
\* once, returns its Result and leaves the cache as the body left it, or
\* directly when the body is not pure; and the process is never aborted.
C9_ClosureArgumentBypass ==
    /\ ret # Panic
    /\ Completed =>
          LET r == Last
          IN  /\ (r.fn = "eval_memo" /\ ~Hashable(r.locals.arguments)) =>
                    /\ cache_key(r.term, r.locals.arguments) = None
                    /\ Len(r.kids) = 1
                    /\ r.kids[1].node = r.term.location
                    /\ r.kids[1].fn = eval_fn(r.term)
                    /\ r.result = r.kids[1].result
                    /\ r.cache1 = r.cache0
              /\ ( /\ r.fn = "eval_call"
                   /\ HasClosure(r)
                   /\ ArgumentsBound(r)
                   /\ ~Hashable(r.locals.arguments) ) =>
                    LET body == r.kids[Len(r.kids)]
                    IN  /\ Len(r.kids) = 2 + Len(r.locals.arguments)
                        /\ body.node = r.locals.closure.body.location
                        /\ r.result = body.result
                        /\ IF is_pure(r.locals.closure.body)
                           THEN /\ body.fn = "eval_memo"
                                /\ Previous.fn = "eval_memo"
                                /\ Len(Previous.kids) = 1
                           ELSE body.fn = eval_fn(r.locals.closure.body)

\* a pure body called with a closure argument has printed again, after an
\* earlier call of the same body with a closure argument had printed
C9_Witness ==
    /\ Completed
    /\ Last.fn = "eval_memo"
    /\ ~Hashable(Last.locals.arguments)
    /\ IsOk(Last.result)
    /\ Last.o1 > Last.o0
    /\ \E i \in 1..Last.d0 :
          /\ done[i].fn = "eval_memo"
          /\ done[i].term = Last.term
          /\ ~Hashable(done[i].locals.arguments)
          /\ [j \in DOMAIN Last.locals.arguments |->
                 Value_to_string(done[i].locals.arguments[j])]
               = [j \in DOMAIN Last.locals.arguments |->
                     Value_to_string(Last.locals.arguments[j])]
          /\ done[i].o1 > done[i].o0

\* C10: when a and b evaluate to va and vb, First(Tuple(a, b)) evaluates to
\* va and Second(Tuple(a, b)) to vb.
C10_ProjectionRoundTrip ==
    Completed =>
        LET r == Last
        IN  ( /\ r.fn \in {"eval_first", "eval_second"}
              /\ r.term.value.kind = "Tuple"
              /\ IsOk(r.kids[1].result) )
            => /\ Previous.fn = "eval_tuple"
               /\ Previous.term = r.term.value
               /\ Len(Previous.kids) = 2
               /\ Previous.kids[1].node = r.term.value.first.location
               /\ Previous.kids[2].node = r.term.value.second.location
               /\ r.result = IF r.fn = "eval_first"
                             THEN Previous.kids[1].result
                             ELSE Previous.kids[2].result

\* First of a Tuple whose components evaluated to different values
C10_Witness ==
    /\ Completed
    /\ Last.fn = "eval_first"
    /\ Last.term.value.kind = "Tuple"
    /\ IsOk(Last.result)
    /\ Previous.fn = "eval_tuple"
    /\ Previous.kids[1].result # Previous.kids[2].result

\* the first activation that returned an error
FirstFailure(i) ==
    /\ i \in 1..Len(done)
    /\ ~IsOk(done[i].result)
    /\ \A j \in 1..(i - 1) : IsOk(done[j].result)

\* C11: evaluation halts at the first failure.  Once an activation has
\* returned an error, no activation is started any more, the Printer is not
\* called and nothing is stored in the cache; every activation that returns
\* after it returns that same error, and so does the top-level eval.
C11_HaltsAtFirstFailure ==
    \A i \in 1..Len(done) :
        FirstFailure(i) =>
            /\ Len(io) = done[i].o1
            /\ cache = done[i].cache1
            /\ ret = done[i].result
            /\ \A k \in 1..Len(stack) : stack[k].d0 < i
            /\ \A j \in (i + 1)..Len(done) :
                  /\ done[j].d0 < i
                  /\ done[j].result = done[i].result
                  /\ done[j].o1 = done[i].o1
                  /\ done[j].cache1 = done[i].cache1

\* the top-level eval has returned an error that came up through the miss of
\* an eval_memo, after something had been printed
C11_Witness ==
    /\ stack = <<>>
    /\ Completed
    /\ ~IsOk(ret)
    /\ Len(io) > 0
    /\ \E i \in 1..Len(done) :
          /\ FirstFailure(i)
          /\ done[i].depth >= 4
          /\ \E j \in (i + 1)..Len(done) :
                done[j].fn = "eval_memo" /\ Len(done[j].kids) = 1

\* C12: an If whose condition evaluates to a value that is not a Bool fails
\* with the invalid-condition error at the location of the condition node;
\* the condition is the only term it has evaluated, and nothing is printed or
\* stored after the condition.
C12_InvalidCondition ==
    Completed =>
        LET r == Last
        IN  ( /\ r.fn = "eval_if"
              /\ IsOk(r.kids[1].result)
              /\ r.kids[1].result.value.kind # "Bool" )
            => /\ Len(r.kids) = 1
               /\ r.kids[1].node = r.term.condition.location
               /\ ~IsOk(r.result)
               /\ r.result.error.message = "invalid if condition"
               /\ r.result.error.location = r.term.condition.location
               /\ r.result.error.location
                     \notin {r.term.location, r.term.then.location,
                             r.term.otherwise.location}
               /\ r.o1 = r.kids[1].e
               /\ r.cache1 = r.cache0

\* an If has failed on a condition that printed a value that is not a Bool
C12_Witness ==
    /\ Completed
    /\ Last.fn = "eval_if"
    /\ Len(Last.kids) = 1
    /\ IsOk(Last.kids[1].result)
    /\ Printed(Last.kids[1])
    /\ Last.kids[1].result.value.kind \in {"Int", "Str", "Tuple"}
    /\ ~IsOk(Last.result)

\* C13: Var(name) evaluates nothing else and changes neither its context nor
\* the cache nor the output; when the context binds `name` it returns the bound
\* value, otherwise it fails with the unbound-variable error at the location
\* of the Var node itself.
C13_VarLookup ==
    Completed =>
        LET r == Last
            name == r.term.text
        IN  r.fn = "eval_var" =>
                /\ r.kids = <<>>
                /\ r.ctx1 = r.ctx0
                /\ r.cache1 = r.cache0
                /\ r.o1 = r.o0
                /\ IF name \in DOMAIN r.ctx0
                   THEN r.result = Ok(r.ctx0[name])
                   ELSE /\ ~IsOk(r.result)
                        /\ r.result.error.message
                              = "unbound variable \"" \o name \o "\""
                        /\ r.result.error.location = r.term.location

\* a Var has failed as unbound in a context that binds another name, inside a
\* term whose location is not the Var's
C13_Witness ==
    /\ Completed
    /\ Last.fn = "eval_var"
    /\ ~IsOk(Last.result)
    /\ Last.ctx0 # Context_new
    /\ Last.depth >= 2
    /\ stack[Len(stack)].term.location # Last.result.error.location

\* a Var has returned the value its context binds it to
C13_WitnessBound ==
    /\ Completed
    /\ Last.fn = "eval_var"
    /\ IsOk(Last.result)
    /\ Last.result.value = Last.ctx0[Last.term.text]

\* the calls of closures with a pure body that bound all their pairs to
\* hashable arguments
Memoized(r) ==
    /\ r.fn = "eval_call"
    /\ HasClosure(r)
    /\ ArgumentsBound(r)
    /\ is_pure(r.locals.closure.body)
    /\ Hashable(r.locals.arguments)

\* C14: two closures with the same body and different captured contexts share
\* one cache entry.  When a call of one of them was the first to complete with
\* given hashable arguments (and so stored its result), a later call of the
\* other with equal arguments returns that result from eval_memo without
\* evaluating the body.  (Fails: between the two calls an enclosing miss with
\* the same key stores another value over the first call's.)
C14_SharedEntryAcrossClosures ==
    Completed =>
        LET r == Last
        IN  Memoized(r) =>
                \A i \in 1..r.d0 :
                    LET q == done[i]
                    IN  ( /\ Memoized(q)
                          /\ IsOk(q.result)
                          /\ q.locals.closure.body = r.locals.closure.body
                          /\ q.locals.arguments = r.locals.arguments
                          /\ q.locals.closure.context # r.locals.closure.context
                          /\ heap[q.locals.closure.context]
                                # heap[r.locals.closure.context]
                          /\ \A j \in 1..(i - 1) :
                                ~( /\ Memoized(done[j])
                                   /\ IsOk(done[j].result)
                                   /\ done[j].locals.closure.body = q.locals.closure.body
                                   /\ done[j].locals.arguments = q.locals.arguments ) )
                        => /\ r.result = q.result
                           /\ Previous.fn = "eval_memo"
                           /\ Previous.term = r.locals.closure.body
                           /\ Previous.kids = <<>>

\* the completed calls of eval_memo whose arguments were all hashed
Hashed(r) == r.fn = "eval_memo" /\ Hashable(r.locals.arguments)

\* C15: the key of a call is made from the body and a structural encoding of
\* the arguments: two calls of eval_memo on the same body have the same key
\* exactly when their arguments are equal values.  (Fails: a tuple is hashed
\* from its display form, which shows the integer 0 and the string "0" alike.)
C15_StructuralHash ==
    Completed =>
        LET r == Last
        IN  Hashed(r) =>
                \A i \in 1..Len(done) :
                    LET q == done[i]
                    IN  (Hashed(q) /\ q.term = r.term) =>
                            ( cache_key(q.term, q.locals.arguments)
                                  = cache_key(r.term, r.locals.arguments)
                              <=> q.locals.arguments = r.locals.arguments )

\* the activations of eval_function that returned this closure
CreatedBy(closure) ==
    {i \in 1..Len(done) :
        done[i].fn = "eval_function" /\ done[i].result = Ok(closure)}

\* the body of call k is about to be evaluated
BodyStarts(k) ==
    k \in CallsInBody /\ k = Len(stack) - 1 /\ Top.pc = "start"

\* C16: a closure shares the context its Function node was evaluated in.
\* When the body of a call starts, every binding that context held when the
\* callee was evaluated, also one added after the closure was created, is a
\* binding of the call's context, unless a parameter of the call has the
\* name.  (Fails: eval_function captures a copy.)
C16_CaptureByReference ==
    \A k \in 1..Len(stack) :
        BodyStarts(k) =>
            LET c == stack[k]
                closure == c.locals.closure
                before == done[c.kids[1].id].heap1
            IN  \A i \in CreatedBy(closure) :
                    \A name \in DOMAIN before[done[i].context] :
                        ~BoundParameter(c, name) =>
                            Context_get(heap[c.locals.new_context], name)
                                = Some(before[done[i].context][name])

\* a Print, or Functions around a Print
RECURSIVE EndsInPrint(_)
EndsInPrint(term) ==
    \/ term.kind = "Print"
    \/ term.kind = "Function" /\ EndsInPrint(term.value)

\* C17: the body of a call is handed to eval_memo exactly when it is neither
\* a Print nor Functions around a Print, whatever it contains, and otherwise
\* to eval itself; a body that is a Print prints, on every call that succeeds,
\* the value the call returns.
C17_ShallowPurity ==
    /\ \A k \in 1..Len(stack) :
          BodyStarts(k) =>
              LET body == stack[k].locals.closure.body
              IN  /\ Top.term = body
                  /\ Top.fn = IF EndsInPrint(body) THEN eval_fn(body) ELSE "eval_memo"
    /\ Completed =>
          LET r == Last
          IN  (r.fn = "eval_call" /\ HasClosure(r) /\ ArgumentsBound(r)) =>
                  LET body == r.locals.closure.body
                      kid == r.kids[Len(r.kids)]
                  IN  /\ kid.node = body.location
                      /\ kid.fn = "eval_memo" <=> ~EndsInPrint(body)
                      /\ (body.kind = "Print" /\ IsOk(r.result)) =>
                            /\ kid.fn = "eval_print"
                            /\ kid.e > kid.s
                            /\ io[kid.e].value = r.result.value

\* a body with a Print inside it was answered from the cache, printing
\* nothing, after an earlier call of it had printed
C17_Witness ==
    /\ Completed
    /\ Last.fn = "eval_call"
    /\ HasClosure(Last)
    /\ IsOk(Last.result)
    /\ Last.locals.closure.body.kind = "Binary"
    /\ Last.locals.closure.body.lhs.kind = "Print"
    /\ Previous.fn = "eval_memo"
    /\ Previous.kids = <<>>
    /\ Previous.o1 = Previous.o0
    /\ \E i \in 1..Last.d0 :
          /\ done[i].fn = "eval_memo"
          /\ done[i].term = Last.locals.closure.body
          /\ done[i].o1 > done[i].o0

\* a body that is a Print has printed on a second call with the same argument
C17_WitnessPrint ==
    /\ Completed
    /\ Last.fn = "eval_call"
    /\ HasClosure(Last)
    /\ IsOk(Last.result)
    /\ Last.locals.closure.body.kind = "Print"
    /\ Previous.fn = "eval_print"
    /\ \E i \in 1..Last.d0 :
          /\ done[i].fn = "eval_call"
          /\ HasClosure(done[i])
          /\ done[i].locals.closure = Last.locals.closure
          /\ done[i].locals.arguments = Last.locals.arguments
          /\ done[i].o1 > done[i].o0
          /\ IsOk(done[i].result)

Min(a, b) == IF a < b THEN a ELSE b

\* the context `base` after the first n parameters have been bound, in order,
\* to the first n values
RECURSIVE Bound(_, _, _, _)
Bound(base, parameters, values, n) ==
    IF n = 0 THEN base
    ELSE (parameters[n].text :> values[n])
             @@ Bound(base, parameters, values, n - 1)

\* C18: a call of a closure with p parameters on a arguments is no error.
\* When its body starts, the call has evaluated min(p, a) arguments and its
\* context, a cell of its own, is the closure's captured context with exactly
\* the first min(p, a) parameters bound to them: a parameter beyond them is
\* bound as the captured context binds it, or not at all.  A call of a
\* closure that fails returns the error of one of its arguments or of its
\* body.
C18_ArityTolerated ==
    /\ \A k \in 1..Len(stack) :
          BodyStarts(k) =>
              LET c == stack[k]
                  closure == c.locals.closure
                  p == Len(closure.parameters)
                  a == Len(c.term.arguments)
                  m == Min(p, a)
                  captured == done[c.kids[1].id].heap1[closure.context]
                  new_context == heap[c.locals.new_context]
              IN  /\ Len(c.locals.arguments) = m
                  /\ Len(c.kids) = 1 + m
                  /\ c.locals.new_context \notin {c.context, closure.context}
                  /\ new_context = Bound(captured, closure.parameters,
                                         c.locals.arguments, m)
                  /\ \A i \in (m + 1)..p :
                        LET name == closure.parameters[i].text
                        IN  (\A j \in 1..m : closure.parameters[j].text # name) =>
                                /\ name \in DOMAIN new_context
                                      <=> name \in DOMAIN captured
                                /\ name \in DOMAIN captured =>
                                      new_context[name] = captured[name]
    /\ Completed =>
          LET r == Last
          IN  (r.fn = "eval_call" /\ HasClosure(r) /\ ~IsOk(r.result)) =>
                  /\ Len(r.kids) >= 2
                  /\ r.result = r.kids[Len(r.kids)].result

\* a body starts with one parameter bound and one left unbound
C18_Witness ==
    \E k \in 1..Len(stack) :
        /\ BodyStarts(k)
        /\ Len(stack[k].locals.closure.parameters) = 2
        /\ Len(stack[k].term.arguments) = 1
        /\ Len(stack[k].locals.arguments) = 1
        /\ stack[k].locals.closure.parameters[2].text
              \notin DOMAIN heap[stack[k].locals.new_context]

\* a call with more arguments than parameters has returned a value
C18_WitnessSurplusArguments ==
    /\ Completed
    /\ Last.fn = "eval_call"
    /\ HasClosure(Last)
    /\ IsOk(Last.result)
    /\ Len(Last.locals.closure.parameters) = 1
    /\ Len(Last.term.arguments) = 3

\* C19: an If whose condition evaluates to a Bool evaluates, after the
\* condition, `then` when it is true and `otherwise` when it is false, and
\* nothing else: its output is the condition's followed by the branch's, the
\* cache is as the branch left it and the result is the branch's result.
C19_OneBranch ==
    /\ \A k \in 1..Len(stack) :
          (stack[k].fn = "eval_if" /\ stack[k].pc = "branch") =>
              LET c == stack[k]
                  taken == IF c.kids[1].result.value.value
                           THEN c.term.then ELSE c.term.otherwise
              IN  /\ IsOk(c.kids[1].result)
                  /\ c.kids[1].result.value.kind = "Bool"
                  /\ c.kids[1].node = c.term.condition.location
                  /\ k < Len(stack) =>
                        /\ Len(c.kids) = 1
                        /\ stack[k + 1].term = taken
                        /\ stack[k + 1].context = c.context
                        /\ stack[k + 1].o0 = c.kids[1].e
                  /\ k = Len(stack) =>
                        /\ Len(c.kids) = 2
                        /\ c.kids[2].node = taken.location
    /\ Completed =>
          LET r == Last
          IN  ( /\ r.fn = "eval_if"
                /\ IsOk(r.kids[1].result)
                /\ r.kids[1].result.value.kind = "Bool" )
              => LET taken == IF r.kids[1].result.value.value
                              THEN r.term.then ELSE r.term.otherwise
                 IN  /\ Len(r.kids) = 2
                     /\ r.kids[1].s = r.o0
                     /\ r.kids[2].node = taken.location
                     /\ r.kids[2].context = r.context
                     /\ r.kids[2].s = r.kids[1].e
                     /\ r.kids[2].e = r.o1
                     /\ r.result = r.kids[2].result
                     /\ r.cache1 = r.cache0
                     /\ r.cache1 = done[r.kids[2].id].cache1
                     /\ r.ctx1 = done[r.kids[2].id].ctx1

\* an If on a condition that printed false has returned what `otherwise`
\* returned, `otherwise` having printed and `then` being another term
C19_Witness ==
    /\ Completed
    /\ Last.fn = "eval_if"
    /\ Len(Last.kids) = 2
    /\ Last.kids[1].result = Ok(Value_Bool(FALSE))
    /\ Printed(Last.kids[1])
    /\ Printed(Last.kids[2])
    /\ Last.kids[2].node = Last.term.otherwise.location
    /\ [Last.term.then EXCEPT !.location = NoLocation]
          # [Last.term.otherwise EXCEPT !.location = NoLocation]
    /\ IsOk(Last.result)

\* a closure, or a tuple with a closure somewhere inside
RECURSIVE ContainsClosure(_)
ContainsClosure(value) ==
    \/ value.kind = "Closure"
    \/ value.kind = "Tuple"
          /\ (ContainsClosure(value.first) \/ ContainsClosure(value.second))

\* what eval_memo was or is called with: the body and the arguments
MemoCalls ==
    {<<stack[k].term, stack[k].locals.arguments>> :
        k \in {k \in 1..Len(stack) : stack[k].fn = "eval_memo"}}
    \cup {<<done[i].term, done[i].locals.arguments>> :
        i \in {i \in 1..Len(done) : done[i].fn = "eval_memo"}}

\* C20: the Closure arm of Value::hash is never reached.  No argument that
\* eval_memo hashes makes the hash panic, also a tuple with a closure inside,
\* no call of cache_key aborts, and no evaluation ends in a panic.
C20_HashNeverPanics ==
    /\ ret.tag # "Panic"
    /\ \A memo \in MemoCalls :
          /\ cache_key(memo[1], memo[2]).tag \in {"Some", "None"}
          /\ \A i \in DOMAIN memo[2] :
                memo[2][i].kind # "Closure" => ~Value_hash(memo[2][i]).panic

\* eval_memo has stored the result of a call whose argument is a tuple with a
\* closure inside
C20_Witness ==
    /\ Completed
    /\ Last.fn = "eval_memo"
    /\ IsOk(Last.result)
    /\ Len(Last.locals.arguments) = 1
    /\ Last.locals.arguments[1].kind = "Tuple"
    /\ ContainsClosure(Last.locals.arguments[1])
    /\ cache_key(Last.term, Last.locals.arguments).tag = "Some"
    /\ cache_key(Last.term, Last.locals.arguments).some \in DOMAIN Last.cache1

\* C21: the cache only grows.  No step removes a key, and no step stores,
\* under a key the cache already holds, a value other than the one it holds.
\* (Fails: a miss stores its result over the entry a call inside it has
\* stored under the same key.)
C21_CacheStable ==
    [][\A key \in DOMAIN cache :
           key \in DOMAIN cache' /\ cache'[key] = cache[key]]_vars

====
